---- MODULE Spec2Model ----
(***************************************************************************)
(* Model of the two chart savers of altair_saver:                          *)
(*   - altair_savechart/_node.py     (_NodeCommands, NodeSaver)            *)
(*   - altair_saver/savers/_pyppeteer.py (EXTRACT_CODE, PyppeteerSaver)    *)
(* The interpreter runs one call at a time; every external process the     *)
(* code starts (npm, a converter binary, the headless browser) is entered  *)
(* in the log of the call that started it.                                 *)
(***************************************************************************)
EXTENDS Integers, Sequences, FiniteSets, TLC

\* ---------------------------------------------------------------- bounds
\* directories `npm root` may report: 1..NumRoots
NumRoots == 2
\* scale factors a PyppeteerSaver may be made with: 1..MaxScaleFactor
MaxScaleFactor == 2

\* chart specifications are opaque blobs
Specs == {<<"chart", "A">>, <<"chart", "B">>}
Roots == 1..NumRoots

None == "None"

\* the _NodeCommands objects of a process that uses the command-line
\* adapter: "n1" is the _node of the NodeSaver, reached through the saver
\* only; "n2" is one made on its own, _NodeCommands(global_=False), and
\* called directly
NodeIds == {"n1", "n2"}
Modes == {"vega", "vega-lite"}
\* format strings a caller may pass
Formats == {"pdf", "png", "svg", "vega", "vega-lite", "bogus"}

VARIABLES
    node,       \* the _NodeCommands objects: [_global]
    saver,      \* the NodeSaver, if the process made one: <<[_spec, _mode, _node]>>
    cache,      \* the lru_cache of _NodeCommands.npm_root: entries [key, val], newest first
    resolved,   \* the _NodeCommands objects whose npm_root has returned a value
    psaver,     \* the PyppeteerSaver, if the process made one: <<[_spec, _mode, ...]>>
    heap,       \* the dict objects of the PyppeteerSaver: _embed_options and the local opt
    frame,      \* the coroutine _extract: [pc, fmt, k, opt]
    payload,    \* what page.evaluate returned in the most recent _extract
    browser,    \* the browser of the most recent _extract: "none", "open", "closed"
    page,       \* its page: [state, content, scripts]
    ctor,       \* the attributes of the savers as construction left them
    last,       \* the most recent call: [op, self, fmt, arg, out]
    env,        \* what the most recent call of the command-line adapter met outside
    log         \* the external processes the most recent call started, in order,
                \* each with its exit status

nodeVars == <<node, saver, cache, resolved>>
browserVars == <<psaver, heap, frame, payload, browser, page>>
vars == <<node, saver, cache, resolved, psaver, heap, frame, payload, browser, page,
          ctor, last, env, log>>

\* ------------------------------------------------------- values and errors
Return(v) == [kind |-> "return", val |-> v]
Raise(e, w) == [kind |-> "raise", exc |-> e, what |-> w]

\* json.dumps(x).encode() / json.loads(b)
JsonDumps(x) == <<"json", x>>
JsonLoads(b) == b[2]

\* bytes.decode()
Decode(b) == <<"str", b>>

\* alt.VEGA_VERSION, alt.VEGALITE_VERSION and alt.VEGAEMBED_VERSION, as
\* strings of characters
VEGA_VERSION == <<"5", ".", "1", "7", ".", "0">>
VEGALITE_VERSION == <<"4", ".", "1", "7", ".", "0">>
VEGAEMBED_VERSION == <<"6", ".", "2">>

\* (variant: the whole version string, the [0] of split(".")[0] lost)
SplitHead_whole(s) == s

\* version.split(".")[0]
RECURSIVE SplitHead(_)
SplitHead(s) ==
    IF s = <<>> \/ Head(s) = "." THEN <<>>
    ELSE <<Head(s)>> \o SplitHead(Tail(s))

\* "application/vnd.vega.v{}+json".format(major), and the vega-lite one
VegaMime(major) == <<"application/vnd.vega.v", major, "+json">>
VegaLiteMime(major) == <<"application/vnd.vegalite.v", major, "+json">>

\* ------------------------------------------------ the external processes
\* What one call meets outside the interpreter.  A failing step aborts the
\* call, so one call observes at most one fault:
\*   npm   : "exit1" (npm exits non-zero), "nodir" (the reported directory
\*           does not exist), "ok"
\*   root  : the directory `npm root` reports
\*   fault : the first converter fault of the call, if any
Faults == {"none", "vl2vg-missing", "vl2vg-exit", "vg-missing", "vg-exit"}
NpmOutcomes == {[npm |-> "exit1", root |-> 1], [npm |-> "nodir", root |-> 1]}
                 \cup [npm : {"ok"}, root : Roots]
Env(n, f) == [npm |-> n.npm, root |-> n.root, fault |-> f]

\* the converter binaries, deterministic functions of their standard input
BinVl2vg(stdin) == JsonDumps(<<"vg", JsonLoads(stdin)>>)
BinVg2(tool, stdin) == <<tool, JsonLoads(stdin)>>

NpmCmd(global) == IF global THEN <<"npm", "root", "--global">> ELSE <<"npm", "root">>
\* os.path.join(npm_root, pkg, "bin", tool)
PathJoin(root, pkg, tool) == <<root, pkg, "bin", tool>>

\* an entry of the log: the kind of process, its command line, its exit status
Proc(kind, argv, exit) == [kind |-> kind, argv |-> argv, exit |-> exit]

\* ------------------------------------------------------- _NodeCommands
\* A call threads c = [cache, log, resolved]; each method returns
\* [c |-> the threaded state after it, out |-> Return(..) or Raise(..)].

\* @lru_cache(1): the maxsize of the cache of npm_root
CacheMaxSize == 1

\* functools.lru_cache around npm_root: one cache for the function, its
\* entries keyed by the argument tuple (self,), the least recently used
\* entry dropped when a new one does not fit
CacheHit(entries, self) == \E k \in 1..Len(entries) : entries[k].key = self
CacheGet(entries, self) ==
    (CHOOSE k \in 1..Len(entries) : entries[k].key = self)
CacheTouch(entries, self) ==
    LET k == CacheGet(entries, self)
    IN  <<entries[k]>> \o SelectSeq(entries, LAMBDA x : x.key # self)
CacheStore(entries, self, v) ==
    SubSeq(<<[key |-> self, val |-> v]>> \o entries, 1,
           IF Len(entries) + 1 <= CacheMaxSize THEN Len(entries) + 1 ELSE CacheMaxSize)

\* (variant: the os.path.isdir check left out)
npm_root_nocheck(self, c, e) ==
    IF CacheHit(c.cache, self)
    THEN [c |-> [c EXCEPT !.cache = CacheTouch(@, self)],
          out |-> Return(c.cache[CacheGet(c.cache, self)].val)]
    ELSE LET cmd == NpmCmd(node[self]._global)
         IN  IF e.npm = "exit1"
             THEN [c |-> [c EXCEPT !.log = Append(@, Proc("npm", cmd, 1))],
                   out |-> Raise("CalledProcessError", "npm")]
             ELSE [c |-> [c EXCEPT !.log = Append(@, Proc("npm", cmd, 0)),
                                   !.cache = CacheStore(@, self, e.root),
                                   !.resolved = @ \cup {self}],
                   out |-> Return(e.root)]

npm_root(self, c, e) ==
    IF CacheHit(c.cache, self)
    THEN [c |-> [c EXCEPT !.cache = CacheTouch(@, self)],
          out |-> Return(c.cache[CacheGet(c.cache, self)].val)]
    ELSE LET cmd == NpmCmd(node[self]._global)
             c1 == [c EXCEPT !.log = Append(@, Proc("npm", cmd, 0))]
         IN  IF e.npm = "exit1"
             THEN [c |-> [c EXCEPT !.log = Append(@, Proc("npm", cmd, 1))],
                   out |-> Raise("CalledProcessError", "npm")]
             ELSE IF e.npm = "nodir"
             THEN [c |-> c1, out |-> Raise("RuntimeError", "npm root not found")]
             ELSE [c |-> [c1 EXCEPT !.cache = CacheStore(@, self, e.root),
                                    !.resolved = @ \cup {self}],
                   out |-> Return(e.root)]

\* (variant: the exit status of vl2vg ignored, as with subprocess.run)
vl2vg_unchecked(self, spec, c, e) ==
    LET r == npm_root(self, c, e)
    IN  IF r.out.kind = "raise" THEN r
        ELSE LET path == PathJoin(r.out.val, "vega-lite", "vl2vg")
             IN  IF e.fault = "vl2vg-missing"
                 THEN [c |-> r.c, out |-> Raise("RuntimeError", "Cannot find vl2vg command")]
                 ELSE [c |-> [r.c EXCEPT !.log =
                                 Append(@, Proc("converter", path,
                                                IF e.fault = "vl2vg-exit" THEN 1 ELSE 0))],
                       out |-> Return(JsonLoads(BinVl2vg(JsonDumps(spec))))]

vl2vg(self, spec, c, e) ==
    LET r == npm_root(self, c, e)
    IN  IF r.out.kind = "raise" THEN r
        ELSE LET path == PathJoin(r.out.val, "vega-lite", "vl2vg")
             IN  IF e.fault = "vl2vg-missing"
                 THEN [c |-> r.c, out |-> Raise("RuntimeError", "Cannot find vl2vg command")]
                 ELSE IF e.fault = "vl2vg-exit"
                      THEN [c |-> [r.c EXCEPT !.log = Append(@, Proc("converter", path, 1))],
                            out |-> Raise("CalledProcessError", "vl2vg")]
                      ELSE [c |-> [r.c EXCEPT !.log = Append(@, Proc("converter", path, 0))],
                                out |-> Return(JsonLoads(BinVl2vg(JsonDumps(spec))))]

\* the body shared by vg2png, vg2pdf and vg2svg, up to the check_output call
Vg2Run(tool, self, spec, c, e) ==
    LET r == npm_root(self, c, e)
    IN  IF r.out.kind = "raise" THEN r
        ELSE LET path == PathJoin(r.out.val, "vega-cli", tool)
             IN  IF e.fault = "vg-missing"
                 THEN [c |-> r.c, out |-> Raise("RuntimeError", "Cannot find vg2 command")]
                 ELSE IF e.fault = "vg-exit"
                      THEN [c |-> [r.c EXCEPT !.log = Append(@, Proc("converter", path, 1))],
                            out |-> Raise("CalledProcessError", tool)]
                      ELSE [c |-> [r.c EXCEPT !.log = Append(@, Proc("converter", path, 0))],
                            out |-> Return(BinVg2(tool, JsonDumps(spec)))]

vg2png(self, spec, c, e) == Vg2Run("vg2png", self, spec, c, e)

vg2pdf(self, spec, c, e) == Vg2Run("vg2pdf", self, spec, c, e)

vg2svg(self, spec, c, e) ==
    LET r == Vg2Run("vg2svg", self, spec, c, e)
    IN  IF r.out.kind = "raise" THEN r
        ELSE [c |-> r.c, out |-> Return(Decode(r.out.val))]

\* (variant: the vega-lite spec handed to vg2png as it is)
vl2png_direct(self, spec, c, e) == vg2png(self, spec, c, e)

vl2png(self, spec, c, e) ==
    LET v == vl2vg(self, spec, c, e)
    IN  IF v.out.kind = "raise" THEN v ELSE vg2png(self, v.out.val, v.c, e)

vl2pdf(self, spec, c, e) ==
    LET v == vl2vg(self, spec, c, e)
    IN  IF v.out.kind = "raise" THEN v ELSE vg2pdf(self, v.out.val, v.c, e)

vl2svg(self, spec, c, e) ==
    LET v == vl2vg(self, spec, c, e)
    IN  IF v.out.kind = "raise" THEN v ELSE vg2svg(self, v.out.val, v.c, e)

\* ----------------------------------------------------------- NodeSaver
\* (variant: one more format declared than _mimebundle converts)
NodeSaver_valid_formats_more == {"pdf", "png", "svg", "vega", "vega-lite", "bogus"}

NodeSaver_valid_formats == {"pdf", "png", "svg", "vega", "vega-lite"}

\* NodeSaver._mimebundle(fmt); a mimebundle is a function from MIME types to
\* contents
NodeSaver_mimebundle(fmt, c, e) ==
    LET self == saver[1]._node
        mode == saver[1]._mode
        spec0 == saver[1]._spec
    IN  IF mode \notin {"vega", "vega-lite"}
        THEN [c |-> c, out |-> Raise("ValueError", "mode must be either 'vega' or 'vega-lite'")]
        ELSE IF mode = "vega" /\ fmt = "vega-lite"
        THEN [c |-> c, out |-> Raise("ValueError", "mode='vega' not compatible with fmt='vega-lite'")]
        ELSE IF mode = "vega-lite" /\ fmt = "vega-lite"
        THEN [c |-> c, out |-> Return(VegaLiteMime(SplitHead(VEGALITE_VERSION)) :> spec0)]
        ELSE LET v == IF mode = "vega-lite"
                      THEN vl2vg(self, spec0, c, e)
                      ELSE [c |-> c, out |-> Return(spec0)]
             IN  IF v.out.kind = "raise" THEN v
                 ELSE LET spec == v.out.val
                      IN  IF fmt = "vega"
                          THEN [c |-> v.c,
                                out |-> Return(VegaMime(SplitHead(VEGA_VERSION)) :> spec)]
                          ELSE IF fmt \in {"png", "svg", "pdf"}
                          THEN LET r == IF fmt = "png" THEN vg2png(self, spec, v.c, e)
                                        ELSE IF fmt = "svg" THEN vg2svg(self, spec, v.c, e)
                                        ELSE vg2pdf(self, spec, v.c, e)
                                   mime == IF fmt = "png" THEN <<"image/png">>
                                           ELSE IF fmt = "svg" THEN <<"image/svg+xml">>
                                           ELSE <<"application/pdf">>
                               IN  IF r.out.kind = "raise" THEN r
                                   ELSE [c |-> r.c, out |-> Return(mime :> r.out.val)]
                          ELSE [c |-> v.c, out |-> Raise("ValueError", "Unrecognized format")]

\* Saver.mimebundle(fmt), the public entry of the command-line adapter: the
\* request is validated against the adapter's declared formats before the
\* adapter's own _mimebundle runs
Saver_mimebundle(fmt, c, e) ==
    IF fmt \notin NodeSaver_valid_formats
    THEN [c |-> c, out |-> Raise("ValueError", "invalid fmt")]
    ELSE NodeSaver_mimebundle(fmt, c, e)

\* ------------------------------------------------------ PyppeteerSaver
\* (variant: "vega-lite" declared as a format of the vega mode)
PyppeteerSaver_valid_formats_vl ==
    [m \in Modes |-> IF m = "vega" THEN {"png", "svg", "vega-lite"}
                     ELSE {"png", "svg", "vega"}]

PyppeteerSaver_valid_formats ==
    [m \in Modes |-> IF m = "vega" THEN {"png", "svg"} ELSE {"png", "svg", "vega"}]

HTML_TEMPLATE == <<"<div id=vis>">>
\* CDN_URL.format(package=package, version=version)
CDN_URL(package, version) == <<"https://cdn.jsdelivr.net/npm/", package, "@", version>>
Packages == <<"vega", "vega-lite", "vega-embed">>
LaunchCmd == <<"chromium", "--headless", "--no-sandbox">>

\* dict objects: functions from keys to values
EmptyDict == <<>>
DictGet(d, k, default) == IF k \in DOMAIN d THEN d[k] ELSE default
DictSet(d, k, v) == (k :> v) @@ d
DictSetDefault(d, k, v) == IF k \in DOMAIN d THEN d ELSE (k :> v) @@ d

\* (variant: no copy made, the same dict returned)
DictCopy_alias(h, src, dst) == [heap |-> h, ref |-> src]

\* d.copy() of the dict at reference src, the new dict placed at reference dst
DictCopy(h, src, dst) == [heap |-> [h EXCEPT ![dst] = h[src]], ref |-> dst]
\* ref[k] = v
SetItem(h, ref, k, v) == [h EXCEPT ![ref] = DictSet(@, k, v)]

\* PyppeteerSaver.__init__: the embed options the saver stores
PyppeteerSaver_init_options(embed_options, scale_factor) ==
    IF scale_factor # 1
    THEN DictSetDefault(embed_options, "scaleFactor", scale_factor)
    ELSE embed_options

\* what the page's scripts meet: the first in-page fault of the evaluation,
\* and the text of the error thrown there
JsFaults == {"none", "compile", "embed", "export"}
ErrMsgs == {<<"Error: invalid spec">>, <<>>}

\* strings are sequences of tokens; the base64 text of bytes is two tokens
B64Encode(bytes) == <<"b64", bytes>>
B64Decode(text) == text[2]
\* canvas.toDataURL("image/png")
ToDataURL(bytes) == <<"data:image/png;base64", ",">> \o B64Encode(bytes)

\* s.split(",", 1): the parts before and after the first comma
RECURSIVE SplitFirstComma(_, _)
SplitFirstComma(before, s) ==
    IF s = <<>> THEN <<before>>
    ELSE IF Head(s) = "," THEN <<before, Tail(s)>>
    ELSE SplitFirstComma(Append(before, Head(s)), Tail(s))

\* EXTRACT_CODE: the payload the in-page function resolves to, a dict with
\* the key "result" or the key "error"
EXTRACT_CODE(spec, embedOpt, format, js) ==
    IF format = "vega"
    THEN IF DictGet(embedOpt, "mode", None) = "vega-lite"
         THEN IF js.fault = "compile"
              THEN "error" :> js.msg
              ELSE "result" :> <<"vg", spec>>
         ELSE "result" :> spec
    ELSE IF js.fault = "embed"
    THEN "error" :> js.msg
    ELSE LET view == <<"view", spec, DictGet(embedOpt, "mode", None)>>
             scale == DictGet(embedOpt, "scaleFactor", 1)
         IN  IF format = "png"
             THEN IF js.fault = "export"
                  THEN "error" :> js.msg
                  ELSE "result" :> ToDataURL(<<"png", view, scale>>)
             ELSE IF format = "svg"
             THEN IF js.fault = "export"
                  THEN "error" :> js.msg
                  ELSE "result" :> <<"svg", view, scale>>
             ELSE "error" :> <<"Unrecognized format: ", format>>

RaiseJs(msg) == [kind |-> "raise", exc |-> "JavascriptError", what |-> "page", msg |-> msg]

\* (variant: the error raised without the text the page reported)
ExtractResult_nomessage(result) ==
    IF "error" \in DOMAIN result
    THEN RaiseJs(<<"script execution failed">>)
    ELSE Return(result["result"])

\* the end of _extract: lines 143-145
ExtractResult(result) ==
    IF "error" \in DOMAIN result
    THEN RaiseJs(result["error"])
    ELSE Return(result["result"])

\* _serialize after _extract has returned out
PyppeteerSaver_serialize(fmt, out) ==
    IF fmt = "png" THEN Return(B64Decode(SplitFirstComma(<<>>, out)[2]))
    ELSE IF fmt = "svg" THEN Return(out)
    ELSE IF fmt = "vega" THEN Return(out)
    ELSE Raise("ValueError", "Unrecognized format")

\* the MIME type Saver.mimebundle files the content of a format under
FmtToMimetype(fmt, versions) ==
    IF fmt = "png" THEN <<"image/png">>
    ELSE IF fmt = "svg" THEN <<"image/svg+xml">>
    ELSE IF fmt = "pdf" THEN <<"application/pdf">>
    ELSE IF fmt = "vega" THEN VegaMime(SplitHead(versions["vega"]))
    ELSE VegaLiteMime(SplitHead(versions["vega-lite"]))

\* Saver.mimebundle(fmt) of the browser adapter, before it calls _serialize:
\* the request is validated against the formats declared for the mode
PyppeteerRequestValid(fmt) == fmt \in PyppeteerSaver_valid_formats[psaver[1]._mode]

\* ------------------------------------------------------------- actions
Ctx == [cache |-> cache, log |-> <<>>, resolved |-> resolved]

Call(op, self, fmt, arg, out) ==
    [op |-> op, self |-> self, fmt |-> fmt, arg |-> arg, out |-> out]

Done(op, self, fmt, arg, e, r) ==
    /\ env' = e
    /\ cache' = r.c.cache
    /\ resolved' = r.c.resolved
    /\ log' = r.c.log
    /\ last' = Call(op, self, fmt, arg, r.out)
    /\ UNCHANGED <<node, saver, ctor, browserVars>>

\* saver.mimebundle(fmt) on the NodeSaver
NodeMimebundle(fmt, e) ==
    /\ saver # <<>>
    /\ Done("mimebundle", saver[1]._node, fmt, <<>>, e, Saver_mimebundle(fmt, Ctx, e))

\* cmds.npm_root
NpmRootAccess(self, e) ==
    Done("npm_root", self, None, <<>>, e, npm_root(self, Ctx, e))

\* cmds.vl2vg(spec)
CallVl2vg(self, spec, e) ==
    Done("vl2vg", self, None, <<spec>>, e, vl2vg(self, spec, Ctx, e))

\* cmds.vg2png(spec), cmds.vg2pdf(spec), cmds.vg2svg(spec) on a vega spec
CallVg2(self, fmt, spec, e) ==
    Done("vg2", self, fmt, <<spec>>, e,
         IF fmt = "png" THEN vg2png(self, spec, Ctx, e)
         ELSE IF fmt = "svg" THEN vg2svg(self, spec, Ctx, e)
         ELSE vg2pdf(self, spec, Ctx, e))

\* cmds.vl2png(spec), cmds.vl2pdf(spec), cmds.vl2svg(spec) on a vega-lite spec
CallVl2(self, fmt, spec, e) ==
    Done("vl2", self, fmt, <<spec>>, e,
         IF fmt = "png" THEN vl2png(self, spec, Ctx, e)
         ELSE IF fmt = "svg" THEN vl2svg(self, spec, Ctx, e)
         ELSE vl2pdf(self, spec, Ctx, e))

\* the coroutine frame when no _extract is running
Idle == [pc |-> "idle", fmt |-> None, k |-> 1, opt |-> None]
NoPage == [state |-> "none", content |-> <<>>, scripts |-> <<>>]

\* an await of _extract raises: the exception leaves _extract, asyncio.run,
\* _serialize and mimebundle; the local opt is dropped with the frame
Abort(exc, h) ==
    /\ last' = [last EXCEPT !.out = Raise(exc, frame.pc)]
    /\ frame' = Idle
    /\ heap' = [h EXCEPT !["opt"] = EmptyDict]

\* saver.mimebundle(fmt) on the PyppeteerSaver, up to the first await of
\* _extract
PyppeteerMimebundle(fmt) ==
    /\ psaver # <<>>
    /\ frame.pc = "idle"
    /\ log' = <<>>
    /\ IF ~PyppeteerRequestValid(fmt)
       THEN /\ last' = Call("mimebundle", "p1", fmt, <<>>, Raise("ValueError", "invalid fmt"))
            /\ UNCHANGED <<frame, payload, browser, page>>
       ELSE /\ last' = Call("mimebundle", "p1", fmt, <<>>, [kind |-> "running"])
            /\ frame' = [Idle EXCEPT !.pc = "launch", !.fmt = fmt]
            /\ payload' = EmptyDict
            /\ browser' = "none"
            /\ page' = NoPage
    /\ UNCHANGED <<nodeVars, psaver, heap, ctor, env>>

\* browser = await launch(headless=True, args=["--no-sandbox"])
Launch(ok) ==
    /\ frame.pc = "launch"
    /\ log' = Append(log, Proc("browser", LaunchCmd, IF ok THEN 0 ELSE 1))
    /\ IF ok
       THEN /\ browser' = "open"
            /\ frame' = [frame EXCEPT !.pc = "newPage"]
            /\ UNCHANGED <<last, heap>>
       ELSE /\ Abort("BrowserError", heap)
            /\ UNCHANGED browser
    /\ UNCHANGED <<nodeVars, psaver, payload, page, ctor, env>>

\* page = await browser.newPage()
NewPage(ok) ==
    /\ frame.pc = "newPage"
    /\ IF ok
       THEN /\ page' = [NoPage EXCEPT !.state = "open"]
            /\ frame' = [frame EXCEPT !.pc = "setContent"]
            /\ UNCHANGED <<last, heap>>
       ELSE /\ Abort("PageError", heap)
            /\ UNCHANGED page
    /\ UNCHANGED <<nodeVars, psaver, payload, browser, ctor, env, log>>

\* await page.setContent(HTML_TEMPLATE)
SetContent(ok) ==
    /\ frame.pc = "setContent"
    /\ IF ok
       THEN /\ page' = [page EXCEPT !.content = HTML_TEMPLATE]
            /\ frame' = [frame EXCEPT !.pc = "addScriptTag"]
            /\ UNCHANGED <<last, heap>>
       ELSE /\ Abort("PageError", heap)
            /\ UNCHANGED page
    /\ UNCHANGED <<nodeVars, psaver, payload, browser, ctor, env, log>>

\* one turn of the loop: await page.addScriptTag(url=..., type=...)
AddScriptTag(ok) ==
    /\ frame.pc = "addScriptTag"
    /\ IF ok
       THEN /\ page' = [page EXCEPT !.scripts =
                           Append(@, CDN_URL(Packages[frame.k],
                                             psaver[1]._package_versions[Packages[frame.k]]))]
            /\ frame' = IF frame.k = Len(Packages)
                        THEN [frame EXCEPT !.pc = "evaluate"]
                        ELSE [frame EXCEPT !.k = @ + 1]
            /\ UNCHANGED <<last, heap>>
       ELSE /\ Abort("PageError", heap)
            /\ UNCHANGED page
    /\ UNCHANGED <<nodeVars, psaver, payload, browser, ctor, env, log>>

\* opt = self._embed_options.copy(); opt["mode"] = self._mode;
\* result = await page.evaluate(EXTRACT_CODE, self._spec, opt, fmt)
\* js.fault is "bridge" when the evaluation throws across the bridge
Evaluate(js) ==
    /\ frame.pc = "evaluate"
    /\ LET cp == DictCopy(heap, psaver[1]._embed_options, "opt")
           h == SetItem(cp.heap, cp.ref, "mode", psaver[1]._mode)
       IN  IF js.fault = "bridge"
           THEN /\ Abort("PageError", h)
                /\ UNCHANGED payload
           ELSE /\ heap' = h
                /\ frame' = [frame EXCEPT !.pc = "pageClose", !.opt = cp.ref]
                /\ payload' = EXTRACT_CODE(psaver[1]._spec, h[cp.ref], frame.fmt, js)
                /\ UNCHANGED last
    /\ UNCHANGED <<nodeVars, psaver, browser, page, ctor, env, log>>

\* await page.close()
PageClose(ok) ==
    /\ frame.pc = "pageClose"
    /\ IF ok
       THEN /\ page' = [page EXCEPT !.state = "closed"]
            /\ frame' = [frame EXCEPT !.pc = "browserClose"]
            /\ UNCHANGED <<last, heap>>
       ELSE /\ Abort("PageError", heap)
            /\ UNCHANGED page
    /\ UNCHANGED <<nodeVars, psaver, payload, browser, ctor, env, log>>

\* await browser.close()
BrowserClose ==
    /\ frame.pc = "browserClose"
    /\ browser' = "closed"
    /\ frame' = [frame EXCEPT !.pc = "finish"]
    /\ UNCHANGED <<nodeVars, psaver, heap, payload, page, ctor, last, env, log>>

\* the end of _extract, then _serialize and the bundle of mimebundle
Finish ==
    /\ frame.pc = "finish"
    /\ LET x == ExtractResult(payload)
           s == IF x.kind = "raise" THEN x ELSE PyppeteerSaver_serialize(frame.fmt, x.val)
       IN  last' = [last EXCEPT !.out =
                       IF s.kind = "raise" THEN s
                       ELSE Return(FmtToMimetype(frame.fmt, psaver[1]._package_versions)
                                   :> s.val)]
    /\ frame' = Idle
    /\ heap' = [heap EXCEPT !["opt"] = EmptyDict]
    /\ UNCHANGED <<nodeVars, psaver, payload, browser, page, ctor, env, log>>

\* ------------------------------------------------------- construction
EmbedArgs == {EmptyDict, "mode" :> "vega", "scaleFactor" :> 3}
ScaleFactors == 1..MaxScaleFactor
JsOutcomes == {[fault |-> "none", msg |-> <<>>]}
                \cup [fault : JsFaults \ {"none"}, msg : ErrMsgs]

NoCall == Call("none", None, None, <<>>, [kind |-> "none"])

\* a process that uses the command-line adapter: NodeSaver(spec, mode), its
\* global_ left at the default True, and _NodeCommands(global_=False)
InitNode ==
    /\ node = [n \in NodeIds |-> [_global |-> (n = "n1")]]
    /\ \E spec \in Specs, mode \in Modes :
          /\ saver = <<[_spec |-> spec, _mode |-> mode, _node |-> "n1"]>>
          /\ ctor = [spec |-> spec, mode |-> mode, embed |-> EmptyDict]
    /\ psaver = <<>>
    /\ heap = [embed_options |-> EmptyDict, opt |-> EmptyDict]

\* a process that uses the browser adapter:
\* PyppeteerSaver(spec, mode, embed_options, scale_factor=...)
InitBrowser ==
    /\ node = <<>>
    /\ saver = <<>>
    /\ \E spec \in Specs, mode \in Modes, eo \in EmbedArgs, sf \in ScaleFactors :
          /\ psaver = <<[_spec |-> spec, _mode |-> mode,
                         _embed_options |-> "embed_options",
                         _package_versions |->
                             [p \in {"vega", "vega-lite", "vega-embed"} |->
                                 IF p = "vega" THEN VEGA_VERSION
                                 ELSE IF p = "vega-lite" THEN VEGALITE_VERSION
                                 ELSE VEGAEMBED_VERSION]]>>
          /\ heap = [embed_options |-> PyppeteerSaver_init_options(eo, sf),
                     opt |-> EmptyDict]
          /\ ctor = [spec |-> spec, mode |-> mode,
                     embed |-> PyppeteerSaver_init_options(eo, sf)]

\* the two adapters share no state: a process is modelled with one of them
Init ==
    /\ InitNode \/ InitBrowser
    /\ cache = <<>>
    /\ resolved = {}
    /\ frame = Idle
    /\ payload = EmptyDict
    /\ env = Env([npm |-> "ok", root |-> 1], "none")
    /\ browser = "none"
    /\ page = NoPage
    /\ last = NoCall
    /\ log = <<>>

Next ==
    \/ \E fmt \in Formats, n \in NpmOutcomes, f \in Faults : NodeMimebundle(fmt, Env(n, f))
    \/ \E self \in DOMAIN node \ {"n1"}, n \in NpmOutcomes :
          NpmRootAccess(self, Env(n, "none"))
    \/ \E self \in DOMAIN node \ {"n1"}, spec \in Specs, n \in NpmOutcomes,
          f \in {"none", "vl2vg-missing", "vl2vg-exit"} :
          CallVl2vg(self, spec, Env(n, f))
    \/ \E self \in DOMAIN node \ {"n1"}, fmt \in {"png", "svg", "pdf"}, spec \in Specs,
          n \in NpmOutcomes, f \in {"none", "vg-missing", "vg-exit"} :
          CallVg2(self, fmt, <<"vg", spec>>, Env(n, f))
    \/ \E self \in DOMAIN node \ {"n1"}, fmt \in {"png", "svg", "pdf"}, spec \in Specs,
          n \in NpmOutcomes, f \in Faults :
          CallVl2(self, fmt, spec, Env(n, f))
    \/ \E fmt \in Formats : PyppeteerMimebundle(fmt)
    \/ \E ok \in BOOLEAN : Launch(ok)
    \/ \E ok \in BOOLEAN : NewPage(ok)
    \/ \E ok \in BOOLEAN : SetContent(ok)
    \/ \E ok \in BOOLEAN : AddScriptTag(ok)
    \/ \E js \in JsOutcomes \cup {[fault |-> "bridge", msg |-> <<>>]} : Evaluate(js)
    \/ \E ok \in BOOLEAN : PageClose(ok)
    \/ BrowserClose
    \/ Finish

Spec == Init /\ [][Next]_vars

\* ------------------------------------------------------------ properties
NodeRequest == saver # <<>> /\ last.op = "mimebundle"
BrowserRequest == psaver # <<>> /\ last.op = "mimebundle"
InvalidRequest == last.out.kind = "raise" /\ last.out.exc = "ValueError"
Converters == {k \in 1..Len(log) : log[k].kind = "converter"}
NpmQueries == {k \in 1..Len(log) : log[k].kind = "npm"}

C3_NpmRootOncePerInstance ==
    [][\A i \in NodeIds :
          (i \in resolved /\ last'.self = i)
             => {k \in 1..Len(log') : log'[k].kind = "npm"} = {}]_vars

\* C4: whenever a call of the browser adapter has ended, by a result, by a
\* JavascriptError or by an exception of one of its awaits, the browser it
\* launched is not left open.
C4_BrowserClosedOnExit ==
    (BrowserRequest /\ frame.pc = "idle" /\ log # <<>>) => browser # "open"

\* C5: for each (mode, format) pair valid for the command-line adapter, the
\* call raises only what a failing external tool raises, and when it returns
\* the mimebundle has exactly one key, the documented MIME type of the
\* format with the major version of the grammar library.
DocumentedMime(fmt) ==
    IF fmt = "png" THEN <<"image/png">>
    ELSE IF fmt = "svg" THEN <<"image/svg+xml">>
    ELSE IF fmt = "pdf" THEN <<"application/pdf">>
    ELSE IF fmt = "vega" THEN <<"application/vnd.vega.v", <<"5">>, "+json">>
    ELSE <<"application/vnd.vegalite.v", <<"4">>, "+json">>

ValidNodePair(mode, fmt) ==
    \/ mode = "vega" /\ fmt \in {"pdf", "png", "svg", "vega"}
    \/ mode = "vega-lite" /\ fmt \in {"pdf", "png", "svg", "vega", "vega-lite"}

ToolsSucceeded == env.npm = "ok" /\ env.fault = "none"

C5_SingleDocumentedMimeKey ==
    (NodeRequest /\ ValidNodePair(saver[1]._mode, last.fmt))
       => /\ ToolsSucceeded => last.out.kind = "return"
          /\ last.out.kind = "return"
                => DOMAIN last.out.val = {DocumentedMime(last.fmt)}
          /\ last.out.kind = "raise"
                => last.out.exc \in {"CalledProcessError", "RuntimeError"}

C5_Witness ==
    /\ NodeRequest /\ saver[1]._mode = "vega-lite" /\ last.fmt = "vega"
    /\ ToolsSucceeded /\ last.out.kind = "return"

\* C6: when the saver's _NodeCommands has no root yet and `npm root` reports
\* a directory that does not exist, a request that needs a converter fails
\* with the configuration error "npm root not found" and starts no converter.
NeedsConverter(mode, fmt) ==
    \/ mode = "vega" /\ fmt \in {"pdf", "png", "svg"}
    \/ mode = "vega-lite" /\ fmt \in {"pdf", "png", "svg", "vega"}

NoRootYet == saver # <<>> /\ saver[1]._node \notin resolved
RootMissing == NodeRequest /\ env.npm = "nodir"

ConfigurationError ==
    /\ last.out.kind = "raise"
    /\ last.out.exc = "RuntimeError"
    /\ last.out.what = "npm root not found"
    /\ Converters = {}

C6_MissingRootFailsConversions ==
    [][(NoRootYet /\ (RootMissing /\ NeedsConverter(saver[1]._mode, last.fmt))')
          => ConfigurationError']_vars

C6_Witness ==
    /\ NoRootYet /\ RootMissing /\ saver[1]._mode = "vega" /\ last.fmt = "png"
    /\ ConfigurationError /\ NpmQueries # {}

\* C6 as first stated: with a missing root directory the first request fails
\* with the configuration error for any mode and format.
C6_AnyRequestFails == [][(NoRootYet /\ RootMissing') => ConfigurationError']_vars

\* C7: when _extract has run to its end, a payload with an error key ends
\* the call with a JavascriptError whose message is the payload's error text,
\* and a payload with only a result ends it with that result (the PNG data
\* URL decoded); no call returns on an error payload, none raises
\* JavascriptError on a result payload.
ExtractEnded == BrowserRequest /\ frame.pc = "idle" /\ log # <<>> /\ browser = "closed"

C7_ErrorPayloadRaised ==
    /\ (ExtractEnded /\ "error" \in DOMAIN payload)
          => /\ last.out.kind = "raise"
             /\ last.out.exc = "JavascriptError"
             /\ last.out.msg = payload["error"]
    /\ (ExtractEnded /\ "error" \notin DOMAIN payload)
          => /\ last.out.kind = "return"
             /\ \A m \in DOMAIN last.out.val :
                   IF last.fmt = "png"
                   THEN ToDataURL(last.out.val[m]) = payload["result"]
                   ELSE last.out.val[m] = payload["result"]
    /\ (BrowserRequest /\ last.out.kind = "return") => "error" \notin DOMAIN payload
    /\ (BrowserRequest /\ last.out.kind = "raise" /\ last.out.exc = "JavascriptError")
          => "error" \in DOMAIN payload

C7_Witness ==
    /\ ExtractEnded /\ "error" \in DOMAIN payload /\ payload["error"] # <<>>
    /\ last.out.kind = "raise" /\ last.out.exc = "JavascriptError"

\* C8: in the command-line adapter a process that exits non-zero is the last
\* one its call starts and the call raises: no mimebundle is returned, and
\* after a failed vl2vg no vega converter runs.
NodeCall == last.op \in {"mimebundle", "npm_root", "vl2vg", "vg2", "vl2"} /\ psaver = <<>>

C8_FailureStopsTheChain ==
    NodeCall =>
       \A k \in 1..Len(log) :
          log[k].exit # 0 => (k = Len(log) /\ last.out.kind = "raise")

C8_Witness ==
    /\ NodeRequest /\ saver[1]._mode = "vega-lite" /\ last.fmt = "png"
    /\ env.npm = "ok" /\ env.fault = "vl2vg-exit"
    /\ Len(log) = 2 /\ log[2].exit = 1 /\ last.out.kind = "raise"

\* C9: the combined vl2png, vl2pdf and vl2svg return what the vega converter
\* returns for the output of vl2vg on the same spec, and they start vl2vg
\* once, before the vega converter.
FreshCtx == [cache |-> <<>>, log |-> <<>>, resolved |-> {}]
AllFine == Env([npm |-> "ok", root |-> 1], "none")

TwoSteps(fmt, spec) ==
    LET vg == vl2vg("n2", spec, FreshCtx, AllFine)
    IN  IF fmt = "png" THEN vg2png("n2", vg.out.val, vg.c, AllFine).out.val
        ELSE IF fmt = "svg" THEN vg2svg("n2", vg.out.val, vg.c, AllFine).out.val
        ELSE vg2pdf("n2", vg.out.val, vg.c, AllFine).out.val

C9_CombinedEqualsTwoSteps ==
    (last.op = "vl2" /\ last.out.kind = "return")
       => /\ last.out.val = TwoSteps(last.fmt, last.arg[1])
          /\ Cardinality(Converters) = 2
          /\ \A k \in Converters :
                log[k].argv[4] = (IF k = Len(log) THEN "vg2" \o last.fmt ELSE "vl2vg")

C9_Witness ==
    /\ last.op = "vl2" /\ last.fmt = "png" /\ last.out.kind = "return"
    /\ Len(log) = 3

\* C10: the saver's stored spec, mode and embed options stay what
\* construction made them, through every call, ended or running, returned or
\* raised.
C10_StoredRequestUnchanged ==
    /\ saver # <<>> => (saver[1]._spec = ctor.spec /\ saver[1]._mode = ctor.mode)
    /\ psaver # <<>> =>
          /\ psaver[1]._spec = ctor.spec
          /\ psaver[1]._mode = ctor.mode
          /\ heap[psaver[1]._embed_options] = ctor.embed

C10_Witness ==
    /\ BrowserRequest /\ frame.pc = "idle" /\ last.out.kind = "return"
    /\ "mode" \notin DOMAIN ctor.embed
    /\ heap[psaver[1]._embed_options] = ctor.embed

====
